---- MODULE Spec2Model ----
(***************************************************************************)
(* px_uploader.py: serial firmware uploader for the PX4FMU bootloader.     *)
(*                                                                         *)
(* The model follows the classes firmware and uploader of px_uploader.py.  *)
(* One uploader object (a session on one serial link) is driven by a       *)
(* caller that may call identify() and upload(fw) in any order.  The       *)
(* device at the other end of the link is the environment: every           *)
(* port.read() returns whatever bytes the device chose to send, or nothing *)
(* (the 0.5 s read timeout).                                               *)
(*                                                                         *)
(* An action is one request/response round trip of the code (the bytes it  *)
(* writes, the reads that follow and what the code does with them).        *)
(* Python exceptions are records [type, msg]; the code raises RuntimeError *)
(* for every protocol failure and tells the kinds apart only by message.   *)
(***************************************************************************)
EXTENDS Integers, Sequences, FiniteSets, TLC

(***************************************************************************)
(* Protocol bytes of class uploader (decimal; the source gives them in hex)*)
(***************************************************************************)
INSYNC == 18
EOC == 32
OK == 16
FAILED == 17
INVALID == 19
NOP == 0
GET_SYNC == 33
GET_DEVICE == 34
CHIP_ERASE == 35
CHIP_VERIFY == 36
PROG_MULTI == 39
READ_MULTI == 40
GET_CRC == 41
REBOOT == 48
INFO_BL_REV == 1
BL_REV_MIN == 2
BL_REV_MAX == 4
INFO_BOARD_ID == 2
INFO_BOARD_REV == 3
INFO_FLASH_SIZE == 4
PROG_MULTI_MAX == 60
READ_MULTI_MAX == 60

(* __erase: "erase is very slow, give it 20s" *)
EraseSeconds == 20
(* serial.Serial(..., timeout=0.5): one clock tick is one read timeout,    *)
(* so a second is two ticks.                                               *)
TicksPerSecond == 2

(***************************************************************************)
(* Bounds of the model                                                     *)
(***************************************************************************)
(* bytes the device sends while one erase is being polled *)
MaxEraseRx == 2
(* the longest payload has this many full PROG_MULTI_MAX chunks, plus one byte *)
MaxFullChunks == 2

(***************************************************************************)
(* Exceptions                                                              *)
(***************************************************************************)
NoError == [type |-> "None", msg |-> ""]
RuntimeError(msg) == [type |-> "RuntimeError", msg |-> msg]
TypeError(msg) == [type |-> "TypeError", msg |-> msg]
AttributeError(attr) == [type |-> "AttributeError", msg |-> attr]
StructError == [type |-> "struct.error", msg |-> "unpack requires a buffer of 4 bytes"]
PortNotOpenError == [type |-> "SerialException", msg |-> "Attempting to use a port that is not open"]

(* an attribute of the session object that no assignment has created yet *)
Unset == -1

(***************************************************************************)
(* 32-bit arithmetic.  An unsigned 32-bit value that can exceed 2^31 - 1   *)
(* (a CRC) is kept as a word: its four bytes, low byte first, which is     *)
(* also how it travels on the wire.                                        *)
(***************************************************************************)
RECURSIVE XorBits(_, _, _)
XorBits(a, b, n) ==
    IF n = 0 THEN 0
    ELSE (((a % 2) + (b % 2)) % 2) + 2 * XorBits(a \div 2, b \div 2, n - 1)

Xor8(a, b) == XorBits(a, b, 8)

XorWord(v, w) == << Xor8(v[1], w[1]), Xor8(v[2], w[2]), Xor8(v[3], w[3]), Xor8(v[4], w[4]) >>

(* state >> 8 on a word *)
ShiftRight8(w) == << w[2], w[3], w[4], 0 >>

(* struct.pack("<I", v) as the device does it: four bytes, low byte first *)
packLE(v) == << v % 256, (v \div 256) % 256, (v \div 65536) % 256, (v \div 16777216) % 256 >>

(* struct.unpack("<I", raw)[0] *)
unpackLE(raw) == raw[1] + 256 * raw[2] + 65536 * raw[3] + 16777216 * raw[4]

(***************************************************************************)
(* class firmware                                                          *)
(***************************************************************************)
crctab == <<
    <<0,0,0,0>>, <<150,48,7,119>>, <<44,97,14,238>>, <<186,81,9,153>>,
    <<25,196,109,7>>, <<143,244,106,112>>, <<53,165,99,233>>, <<163,149,100,158>>,
    <<50,136,219,14>>, <<164,184,220,121>>, <<30,233,213,224>>, <<136,217,210,151>>,
    <<43,76,182,9>>, <<189,124,177,126>>, <<7,45,184,231>>, <<145,29,191,144>>,
    <<100,16,183,29>>, <<242,32,176,106>>, <<72,113,185,243>>, <<222,65,190,132>>,
    <<125,212,218,26>>, <<235,228,221,109>>, <<81,181,212,244>>, <<199,133,211,131>>,
    <<86,152,108,19>>, <<192,168,107,100>>, <<122,249,98,253>>, <<236,201,101,138>>,
    <<79,92,1,20>>, <<217,108,6,99>>, <<99,61,15,250>>, <<245,13,8,141>>,
    <<200,32,110,59>>, <<94,16,105,76>>, <<228,65,96,213>>, <<114,113,103,162>>,
    <<209,228,3,60>>, <<71,212,4,75>>, <<253,133,13,210>>, <<107,181,10,165>>,
    <<250,168,181,53>>, <<108,152,178,66>>, <<214,201,187,219>>, <<64,249,188,172>>,
    <<227,108,216,50>>, <<117,92,223,69>>, <<207,13,214,220>>, <<89,61,209,171>>,
    <<172,48,217,38>>, <<58,0,222,81>>, <<128,81,215,200>>, <<22,97,208,191>>,
    <<181,244,180,33>>, <<35,196,179,86>>, <<153,149,186,207>>, <<15,165,189,184>>,
    <<158,184,2,40>>, <<8,136,5,95>>, <<178,217,12,198>>, <<36,233,11,177>>,
    <<135,124,111,47>>, <<17,76,104,88>>, <<171,29,97,193>>, <<61,45,102,182>>,
    <<144,65,220,118>>, <<6,113,219,1>>, <<188,32,210,152>>, <<42,16,213,239>>,
    <<137,133,177,113>>, <<31,181,182,6>>, <<165,228,191,159>>, <<51,212,184,232>>,
    <<162,201,7,120>>, <<52,249,0,15>>, <<142,168,9,150>>, <<24,152,14,225>>,
    <<187,13,106,127>>, <<45,61,109,8>>, <<151,108,100,145>>, <<1,92,99,230>>,
    <<244,81,107,107>>, <<98,97,108,28>>, <<216,48,101,133>>, <<78,0,98,242>>,
    <<237,149,6,108>>, <<123,165,1,27>>, <<193,244,8,130>>, <<87,196,15,245>>,
    <<198,217,176,101>>, <<80,233,183,18>>, <<234,184,190,139>>, <<124,136,185,252>>,
    <<223,29,221,98>>, <<73,45,218,21>>, <<243,124,211,140>>, <<101,76,212,251>>,
    <<88,97,178,77>>, <<206,81,181,58>>, <<116,0,188,163>>, <<226,48,187,212>>,
    <<65,165,223,74>>, <<215,149,216,61>>, <<109,196,209,164>>, <<251,244,214,211>>,
    <<106,233,105,67>>, <<252,217,110,52>>, <<70,136,103,173>>, <<208,184,96,218>>,
    <<115,45,4,68>>, <<229,29,3,51>>, <<95,76,10,170>>, <<201,124,13,221>>,
    <<60,113,5,80>>, <<170,65,2,39>>, <<16,16,11,190>>, <<134,32,12,201>>,
    <<37,181,104,87>>, <<179,133,111,32>>, <<9,212,102,185>>, <<159,228,97,206>>,
    <<14,249,222,94>>, <<152,201,217,41>>, <<34,152,208,176>>, <<180,168,215,199>>,
    <<23,61,179,89>>, <<129,13,180,46>>, <<59,92,189,183>>, <<173,108,186,192>>,
    <<32,131,184,237>>, <<182,179,191,154>>, <<12,226,182,3>>, <<154,210,177,116>>,
    <<57,71,213,234>>, <<175,119,210,157>>, <<21,38,219,4>>, <<131,22,220,115>>,
    <<18,11,99,227>>, <<132,59,100,148>>, <<62,106,109,13>>, <<168,90,106,122>>,
    <<11,207,14,228>>, <<157,255,9,147>>, <<39,174,0,10>>, <<177,158,7,125>>,
    <<68,147,15,240>>, <<210,163,8,135>>, <<104,242,1,30>>, <<254,194,6,105>>,
    <<93,87,98,247>>, <<203,103,101,128>>, <<113,54,108,25>>, <<231,6,107,110>>,
    <<118,27,212,254>>, <<224,43,211,137>>, <<90,122,218,16>>, <<204,74,221,103>>,
    <<111,223,185,249>>, <<249,239,190,142>>, <<67,190,183,23>>, <<213,142,176,96>>,
    <<232,163,214,214>>, <<126,147,209,161>>, <<196,194,216,56>>, <<82,242,223,79>>,
    <<241,103,187,209>>, <<103,87,188,166>>, <<221,6,181,63>>, <<75,54,178,72>>,
    <<218,43,13,216>>, <<76,27,10,175>>, <<246,74,3,54>>, <<96,122,4,65>>,
    <<195,239,96,223>>, <<85,223,103,168>>, <<239,142,110,49>>, <<121,190,105,70>>,
    <<140,179,97,203>>, <<26,131,102,188>>, <<160,210,111,37>>, <<54,226,104,82>>,
    <<149,119,12,204>>, <<3,71,11,187>>, <<185,22,2,34>>, <<47,38,5,85>>,
    <<190,59,186,197>>, <<40,11,189,178>>, <<146,90,180,43>>, <<4,106,179,92>>,
    <<167,255,215,194>>, <<49,207,208,181>>, <<139,158,217,44>>, <<29,174,222,91>>,
    <<176,194,100,155>>, <<38,242,99,236>>, <<156,163,106,117>>, <<10,147,109,2>>,
    <<169,6,9,156>>, <<63,54,14,235>>, <<133,103,7,114>>, <<19,87,0,5>>,
    <<130,74,191,149>>, <<20,122,184,226>>, <<174,43,177,123>>, <<56,27,182,12>>,
    <<155,142,210,146>>, <<13,190,213,229>>, <<183,239,220,124>>, <<33,223,219,11>>,
    <<212,210,211,134>>, <<66,226,212,241>>, <<248,179,221,104>>, <<110,131,218,31>>,
    <<205,22,190,129>>, <<91,38,185,246>>, <<225,119,176,111>>, <<119,71,183,24>>,
    <<230,90,8,136>>, <<112,106,15,255>>, <<202,59,6,102>>, <<92,11,1,17>>,
    <<255,158,101,143>>, <<105,174,98,248>>, <<211,255,107,97>>, <<69,207,108,22>>,
    <<120,226,10,160>>, <<238,210,13,215>>, <<84,131,4,78>>, <<194,179,3,57>>,
    <<97,38,103,167>>, <<247,22,96,208>>, <<77,71,105,73>>, <<219,119,110,62>>,
    <<74,106,209,174>>, <<220,90,214,217>>, <<102,11,223,64>>, <<240,59,216,55>>,
    <<83,174,188,169>>, <<197,158,187,222>>, <<127,207,178,71>>, <<233,255,181,48>>,
    <<28,242,189,189>>, <<138,194,186,202>>, <<48,147,179,83>>, <<166,163,180,36>>,
    <<5,54,208,186>>, <<147,6,215,205>>, <<41,87,222,84>>, <<191,103,217,35>>,
    <<46,122,102,179>>, <<184,74,97,196>>, <<2,27,104,93>>, <<148,43,111,42>>,
    <<55,190,11,180>>, <<161,142,12,195>>, <<27,223,5,90>>, <<141,239,2,45>>
>>

crcpad == << 255, 255, 255, 255 >>

(* one turn of the loop of firmware.__crc32 *)
crcStep(state, byte) ==
    LET index == Xor8(state[1], byte)
    IN  XorWord(crctab[index + 1], ShiftRight8(state))

(* the element of a one-element set *)
The(S) == CHOOSE x \in S : TRUE

RECURSIVE crcRange(_, _, _, _)
(* the loop of firmware.__crc32 over bytes[lo..hi], in order.  The range   *)
(* is halved, and the state after the first half is a value before the     *)
(* second half starts, to keep the evaluation shallow.                     *)
crcRange(bytes, lo, hi, state) ==
    IF lo > hi THEN state
    ELSE IF lo = hi THEN crcStep(state, bytes[lo])
    ELSE LET mid == (lo + hi) \div 2
         IN  The({crcRange(bytes, mid + 1, hi, half) :
                     half \in {crcRange(bytes, lo, mid, state)}})

(* firmware.__crc32: fold a byte sequence into state (a word), table driven *)
crc32(bytes, state) == crcRange(bytes, 1, Len(bytes), state)

(* range(start, stop, step) of Python, step > 0, as the sequence of its values *)
PyRange(start, stop, step) ==
    IF stop <= start THEN << >>
    ELSE [k \in 1..((stop - start + step - 1) \div step) |-> start + (k - 1) * step]

RECURSIVE crcFold(_, _)
(* the padding loop of firmware.crc: n times, fold crcpad into state *)
crcFold(n, state) ==
    IF n = 0 THEN state
    ELSE IF n = 1 THEN crc32(crcpad, state)
    ELSE The({crcFold(n - (n \div 2), folded) : folded \in {crcFold(n \div 2, state)}})

(* the number of crcpad groups firmware.crc folds after the image *)
crcPadGroups(image, padlen) == Len(PyRange(Len(image), padlen - 1, 4))

(* firmware.crc(padlen) *)
crc(image, padlen) == crcFold(crcPadGroups(image, padlen), crc32(image, <<0, 0, 0, 0>>))

RECURSIVE padImage(_)
(* the padding loop of firmware.__init__ under Python 2 *)
padImage(image) ==
    IF Len(image) % 4 # 0 THEN padImage(Append(image, 255)) ELSE image

(* firmware.__init__: desc is the decoded JSON without its 'image' field,  *)
(* payload the decompressed image.  bytearray.append('\xff') is accepted   *)
(* by Python 2 only: Python 3 raises TypeError on the first padding byte.  *)
firmware(desc, payload, py3) ==
    IF Len(payload) % 4 # 0 /\ py3
    THEN [exc |-> TypeError("'str' object cannot be interpreted as an integer"),
          desc |-> desc, image |-> payload]
    ELSE [exc |-> NoError, desc |-> desc, image |-> padImage(payload)]

(* firmware.property *)
property(fw, propname) == fw.desc[propname]

(***************************************************************************)
(* The environment: what the device sends                                  *)
(***************************************************************************)
(* bytes the device may send where the code reads one byte *)
RxBytes == {INSYNC, OK, FAILED, INVALID, NOP}

(* results of port.read(1): nothing within the timeout, or one byte *)
Read1 == {<< >>} \cup {<< b >> : b \in RxBytes}

(* what the two reads of one __getSync return; the second read is made     *)
(* only after INSYNC, so its result is left empty in the other cases.  A   *)
(* first byte that is not INSYNC is rejected whatever it is: a stale OK    *)
(* and a NOP stand for these bytes.                                        *)
SyncReads ==
    {<< r1, r2 >> : r1 \in {<< INSYNC >>}, r2 \in Read1}
        \cup {<< r1, << >> >> : r1 \in {<< >>, << OK >>, << NOP >>}}

(* the values a device may report for a GET_DEVICE selector; of the flash  *)
(* sizes one is a multiple of 4 and one is not                             *)
DeviceValues(param) ==
    CASE param = INFO_BL_REV -> (BL_REV_MIN - 1)..(BL_REV_MAX + 1)
      [] param = INFO_BOARD_ID -> {9, 5}
      [] param = INFO_BOARD_REV -> {1}
      [] param = INFO_FLASH_SIZE ->
            {PROG_MULTI_MAX + 4, MaxFullChunks * PROG_MULTI_MAX + 1}

(* results of port.read(4) after GET_DEVICE: the four bytes of a value, or *)
(* fewer bytes than asked for (what arrived before the read timeout)       *)
Read4(param) ==
    {packLE(v) : v \in DeviceValues(param)}
        \cup {SubSeq(packLE(BL_REV_MIN), 1, n) : n \in 0..3}

(* the decompressed payloads of the firmware files considered *)
PayloadLens == {0, 3, PROG_MULTI_MAX, MaxFullChunks * PROG_MULTI_MAX + 1}

Payload(n) == [i \in 1..n |-> (i * 37) % 256]

(* the firmware descriptors: written for board 9, image_size as built *)
Descriptors ==
    {[desc |-> [board_id |-> 9, board_revision |-> 1, image_size |-> n],
      payload |-> Payload(n)] : n \in PayloadLens}

(* the firmware objects that firmware.__init__ constructs without raising *)
LoadedFirmware(py3) ==
    {[desc |-> f.desc, image |-> f.image] :
        f \in {g \in {firmware(d.desc, d.payload, py3) : d \in Descriptors} :
                  g.exc = NoError}}

(* fw.crc(self.fw_maxsize) of the firmware objects above for the flash     *)
(* sizes a device reports, computed once                                   *)
crcMemo ==
    {<< f.image, m, crc(f.image, m) >> :
        f \in LoadedFirmware(TRUE) \cup LoadedFirmware(FALSE),
        m \in DeviceValues(INFO_FLASH_SIZE)}

(* fw.crc(padlen), read from the values computed once where it is there *)
expectCrc(image, padlen) ==
    LET known == {t \in crcMemo : t[1] = image /\ t[2] = padlen}
    IN  IF known = {} THEN crc(image, padlen) ELSE (CHOOSE t \in known : TRUE)[3]

(***************************************************************************)
(* class uploader: the link primitives                                     *)
(***************************************************************************)
Tx(frame) == [d |-> "tx", data |-> frame]
Rx(bytes) == [d |-> "rx", data |-> bytes]

(* the wire events of one port.read(): the bytes it returned, if any *)
RxEvents(c) == IF c = << >> THEN << >> ELSE << Rx(c) >>

(* uploader.__recv: c is what port.read(count) returned *)
recv(c) ==
    IF Len(c) < 1
    THEN [exc |-> RuntimeError("timeout waiting for data"), val |-> c]
    ELSE [exc |-> NoError, val |-> c]

(* uploader.__recv_int: the unpacked value is kept as its word *)
recv_int(c) ==
    LET raw == recv(c)
    IN  IF raw.exc # NoError THEN raw
        ELSE IF Len(raw.val) # 4 THEN [exc |-> StructError, val |-> raw.val]
        ELSE raw

(* Mutation of __getSync: the byte after INSYNC is taken for an            *)
(* acknowledgement whatever it is.                                         *)
getSync_anyAck(r1, r2) ==
    LET c1 == recv(r1)
        c2 == recv(r2)
    IN  IF c1.exc # NoError
        THEN [exc |-> c1.exc, rx |-> << >>, timeouts |-> 1]
        ELSE IF c1.val # << INSYNC >>
        THEN [exc |-> RuntimeError("unexpected %s instead of INSYNC"),
              rx |-> RxEvents(r1), timeouts |-> 0]
        ELSE IF c2.exc # NoError
        THEN [exc |-> c2.exc, rx |-> RxEvents(r1), timeouts |-> 1]
        ELSE [exc |-> NoError, rx |-> RxEvents(r1) \o RxEvents(r2), timeouts |-> 0]

(* Mutation of __getSync: the tests for INVALID and FAILED change places.  *)
getSync_swapped(r1, r2) ==
    LET c1 == recv(r1)
        c2 == recv(r2)
    IN  IF c1.exc # NoError
        THEN [exc |-> c1.exc, rx |-> << >>, timeouts |-> 1]
        ELSE IF c1.val # << INSYNC >>
        THEN [exc |-> RuntimeError("unexpected %s instead of INSYNC"),
              rx |-> RxEvents(r1), timeouts |-> 0]
        ELSE IF c2.exc # NoError
        THEN [exc |-> c2.exc, rx |-> RxEvents(r1), timeouts |-> 1]
        ELSE IF c2.val = << FAILED >>
        THEN [exc |-> RuntimeError("bootloader reports INVALID OPERATION"),
              rx |-> RxEvents(r1) \o RxEvents(r2), timeouts |-> 0]
        ELSE IF c2.val = << INVALID >>
        THEN [exc |-> RuntimeError("bootloader reports OPERATION FAILED"),
              rx |-> RxEvents(r1) \o RxEvents(r2), timeouts |-> 0]
        ELSE IF c2.val # << OK >>
        THEN [exc |-> RuntimeError("unexpected response 0x%x instead of OK"),
              rx |-> RxEvents(r1) \o RxEvents(r2), timeouts |-> 0]
        ELSE [exc |-> NoError, rx |-> RxEvents(r1) \o RxEvents(r2), timeouts |-> 0]

(* uploader.__getSync: r1 and r2 are what the two port.read(1) calls return *)
(* (the second is made only after INSYNC).  rx: the wire events; timeouts: *)
(* the reads that ran into the read timeout.                               *)
getSync(r1, r2) ==
    LET c1 == recv(r1)
        c2 == recv(r2)
    IN  IF c1.exc # NoError
        THEN [exc |-> c1.exc, rx |-> << >>, timeouts |-> 1]
        ELSE IF c1.val # << INSYNC >>
        THEN [exc |-> RuntimeError("unexpected %s instead of INSYNC"),
              rx |-> RxEvents(r1), timeouts |-> 0]
        ELSE IF c2.exc # NoError
        THEN [exc |-> c2.exc, rx |-> RxEvents(r1), timeouts |-> 1]
        ELSE IF c2.val = << INVALID >>
        THEN [exc |-> RuntimeError("bootloader reports INVALID OPERATION"),
              rx |-> RxEvents(r1) \o RxEvents(r2), timeouts |-> 0]
        ELSE IF c2.val = << FAILED >>
        THEN [exc |-> RuntimeError("bootloader reports OPERATION FAILED"),
              rx |-> RxEvents(r1) \o RxEvents(r2), timeouts |-> 0]
        ELSE IF c2.val # << OK >>
        THEN [exc |-> RuntimeError("unexpected response 0x%x instead of OK"),
              rx |-> RxEvents(r1) \o RxEvents(r2), timeouts |-> 0]
        ELSE [exc |-> NoError, rx |-> RxEvents(r1) \o RxEvents(r2), timeouts |-> 0]

(* uploader.__sync: flushInput, send GET_SYNC + EOC, __getSync *)
sync(r1, r2) ==
    LET s == getSync(r1, r2)
    IN  [exc |-> s.exc, wire |-> << Tx(<< GET_SYNC, EOC >>) >> \o s.rx]

(* uploader.__getInfo: c is what port.read(4) returned *)
getInfo(param, c, r1, r2) ==
    LET v == recv_int(c)
        s == getSync(r1, r2)
        tx == << Tx(<< GET_DEVICE, param, EOC >>) >>
    IN  IF v.exc # NoError
        THEN [exc |-> v.exc, val |-> Unset, wire |-> tx \o RxEvents(c)]
        ELSE IF s.exc # NoError
        THEN [exc |-> s.exc, val |-> Unset, wire |-> tx \o RxEvents(c) \o s.rx]
        ELSE [exc |-> NoError, val |-> unpackLE(v.val), wire |-> tx \o RxEvents(c) \o s.rx]

(***************************************************************************)
(* State                                                                   *)
(***************************************************************************)
VARIABLES
    runningPython3,  \* the interpreter is Python 3
    fw,              \* the firmware object the current call was given: [desc, image]
    port_open,       \* self.port is open
    bl_rev,          \* self.bl_rev, Unset until assigned
    board_type,      \* self.board_type
    board_rev,       \* self.board_rev
    fw_maxsize,      \* self.fw_maxsize
    pc,              \* where the session's current call stands; "idle" between calls
    op,              \* the call in progress, or the last one: "identify", "upload"
    exc,             \* what the last finished call raised, NoError if it returned
    identified,      \* some identify() call on the session has returned normally
    now,             \* time.time() as __erase reads it, in ticks since it sent CHIP_ERASE
    deadline,        \* the deadline of __erase, in the same ticks
    chunk,           \* groups already handled by the loop of __program / __verify_v2
    wire,            \* what the current call wrote to and read from the link
    caller,          \* who drives the session: "library" (any caller) or "main"
                     \* (the script's own scan loop)
    closes           \* the port.close() calls made on the session's port

vars == << runningPython3, fw, port_open, bl_rev, board_type, board_rev, fw_maxsize,
           pc, op, exc, identified, now, deadline, chunk, wire, caller, closes >>

session == << bl_rev, board_type, board_rev, fw_maxsize >>

(* before upload() is given one *)
NoFirmware ==
    [desc |-> [board_id |-> 0, board_revision |-> 0, image_size |-> 0], image |-> << >>]

(* For a caller of the library: uploader.__init__ has run, the port is     *)
(* open, no attribute is assigned yet.  For the script: it starts, nothing *)
(* is loaded or opened yet.                                                *)
Init ==
    /\ runningPython3 \in BOOLEAN
    /\ caller \in {"library", "main"}
    /\ closes = 0
    /\ fw = NoFirmware
    /\ port_open = (caller = "library")
    /\ bl_rev = Unset
    /\ board_type = Unset
    /\ board_rev = Unset
    /\ fw_maxsize = Unset
    /\ pc = IF caller = "library" THEN "idle" ELSE "load"
    /\ op = "none"
    /\ exc = NoError
    /\ identified = FALSE
    /\ now = 0
    /\ deadline = 0
    /\ chunk = 0
    /\ wire = << >>

(* an exception leaves the current call *)
Raise(e) == pc' = "idle" /\ exc' = e

(* the current call returns *)
Return == pc' = "idle" /\ exc' = NoError

(* a call begins: the record of the link and of the clock starts afresh *)
Begin(name) ==
    /\ pc = "idle"
    /\ op' = name
    /\ now' = 0
    /\ deadline' = 0
    /\ chunk' = 0
    /\ wire' = << >>

(***************************************************************************)
(* uploader.identify                                                       *)
(***************************************************************************)
CallIdentify ==
    /\ caller = "library"
    /\ Begin("identify")
    /\ pc' = "sync"
    /\ exc' = NoError
    /\ fw' = NoFirmware
    /\ UNCHANGED << runningPython3, caller, closes, port_open, session, identified >>

(* self.__sync() *)
IdentifySync ==
    /\ pc = "sync"
    /\ IF ~port_open
       THEN /\ Raise(PortNotOpenError)
            /\ UNCHANGED wire
       ELSE \E r \in SyncReads :
              LET s == sync(r[1], r[2])
              IN  /\ wire' = wire \o s.wire
                  /\ IF s.exc # NoError THEN Raise(s.exc)
                     ELSE pc' = "bl_rev" /\ exc' = exc
    /\ UNCHANGED << runningPython3, caller, closes, fw, port_open, session, op, identified,
                    now, deadline, chunk >>

(* the revision check of identify: the message of the diagnostic is built  *)
(* with "%d" % uploader.INFO_BL_REV, a byte string, which raises TypeError *)
(* before the raise statement of the next line is reached.                 *)
checkRevision(rev) ==
    IF rev < BL_REV_MIN \/ rev > BL_REV_MAX
    THEN TypeError("%d format: a number is required")
    ELSE NoError

(* self.bl_rev = self.__getInfo(INFO_BL_REV), then the revision check *)
IdentifyBlRev ==
    /\ pc = "bl_rev"
    /\ \E c \in Read4(INFO_BL_REV), r \in SyncReads :
          LET g == getInfo(INFO_BL_REV, c, r[1], r[2])
          IN  /\ wire' = wire \o g.wire
              /\ IF g.exc # NoError
                 THEN Raise(g.exc) /\ bl_rev' = bl_rev
                 ELSE /\ bl_rev' = g.val
                      /\ IF checkRevision(g.val) # NoError
                         THEN Raise(checkRevision(g.val))
                         ELSE pc' = "board_id" /\ exc' = exc
    /\ UNCHANGED << runningPython3, caller, closes, fw, port_open, board_type, board_rev, fw_maxsize,
                    op, identified, now, deadline, chunk >>

(* self.board_type = self.__getInfo(INFO_BOARD_ID) *)
IdentifyBoardId ==
    /\ pc = "board_id"
    /\ \E c \in Read4(INFO_BOARD_ID), r \in SyncReads :
          LET g == getInfo(INFO_BOARD_ID, c, r[1], r[2])
          IN  /\ wire' = wire \o g.wire
              /\ IF g.exc # NoError
                 THEN Raise(g.exc) /\ board_type' = board_type
                 ELSE board_type' = g.val /\ pc' = "board_rev" /\ exc' = exc
    /\ UNCHANGED << runningPython3, caller, closes, fw, port_open, bl_rev, board_rev, fw_maxsize,
                    op, identified, now, deadline, chunk >>

(* self.board_rev = self.__getInfo(INFO_BOARD_REV) *)
IdentifyBoardRev ==
    /\ pc = "board_rev"
    /\ \E c \in Read4(INFO_BOARD_REV), r \in SyncReads :
          LET g == getInfo(INFO_BOARD_REV, c, r[1], r[2])
          IN  /\ wire' = wire \o g.wire
              /\ IF g.exc # NoError
                 THEN Raise(g.exc) /\ board_rev' = board_rev
                 ELSE board_rev' = g.val /\ pc' = "flash_size" /\ exc' = exc
    /\ UNCHANGED << runningPython3, caller, closes, fw, port_open, bl_rev, board_type, fw_maxsize,
                    op, identified, now, deadline, chunk >>

(* self.fw_maxsize = self.__getInfo(INFO_FLASH_SIZE); identify returns *)
IdentifyFlashSize ==
    /\ pc = "flash_size"
    /\ \E c \in Read4(INFO_FLASH_SIZE), r \in SyncReads :
          LET g == getInfo(INFO_FLASH_SIZE, c, r[1], r[2])
          IN  /\ wire' = wire \o g.wire
              /\ IF g.exc # NoError
                 THEN Raise(g.exc) /\ UNCHANGED << fw_maxsize, identified >>
                 ELSE fw_maxsize' = g.val /\ identified' = TRUE /\ Return
    /\ UNCHANGED << runningPython3, caller, closes, fw, port_open, bl_rev, board_type, board_rev,
                    op, now, deadline, chunk >>

(***************************************************************************)
(* uploader.upload and the operations it calls                             *)
(***************************************************************************)
Min(a, b) == IF a < b THEN a ELSE b

(* seq[i:j] of Python for 0 <= i <= j *)
PySlice(seq, i, j) == SubSeq(seq, i + 1, Min(j, Len(seq)))

(* Mutation of __split_len: each slice ends one byte early.                *)
split_len_short(seq, length) ==
    LET starts == PyRange(0, Len(seq), length)
    IN  [k \in 1..Len(starts) |-> PySlice(seq, starts[k], starts[k] + length - 1)]

(* uploader.__split_len *)
split_len(seq, length) ==
    LET starts == PyRange(0, Len(seq), length)
    IN  [k \in 1..Len(starts) |-> PySlice(seq, starts[k], starts[k] + length)]

(* Mutation of the checks of upload(): a flash size that was never        *)
(* assigned passes the size check.                                         *)
uploadCheck_unsetSize(type, maxsize, f) ==
    IF type = Unset THEN AttributeError("board_type")
    ELSE IF type # property(f, "board_id")
    THEN RuntimeError("Firmware not suitable for this board")
    ELSE IF maxsize = Unset THEN NoError
    ELSE IF maxsize < property(f, "image_size")
    THEN RuntimeError("Firmware image is too large for this board")
    ELSE NoError

(* Mutation of the checks of upload(): the size check is left out.         *)
uploadCheck_noSize(type, maxsize, f) ==
    IF type = Unset THEN AttributeError("board_type")
    ELSE IF type # property(f, "board_id")
    THEN RuntimeError("Firmware not suitable for this board")
    ELSE IF maxsize = Unset THEN AttributeError("fw_maxsize")
    ELSE NoError

(* the checks upload() makes before it touches the link; reading an        *)
(* attribute that identify() has not assigned raises AttributeError        *)
uploadCheck(type, maxsize, f) ==
    IF type = Unset THEN AttributeError("board_type")
    ELSE IF type # property(f, "board_id")
    THEN RuntimeError("Firmware not suitable for this board")
    ELSE IF maxsize = Unset THEN AttributeError("fw_maxsize")
    ELSE IF maxsize < property(f, "image_size")
    THEN RuntimeError("Firmware image is too large for this board")
    ELSE NoError

CallUpload ==
    /\ caller = "library"
    /\ Begin("upload")
    /\ \E f \in LoadedFirmware(runningPython3) :
          /\ fw' = f
          /\ IF uploadCheck(board_type, fw_maxsize, f) # NoError
             THEN Raise(uploadCheck(board_type, fw_maxsize, f))
             ELSE pc' = "erase" /\ exc' = NoError
    /\ UNCHANGED << runningPython3, caller, closes, port_open, session, identified >>

(* Mutation of the deadline of __erase: one tick longer.                   *)
eraseDeadline_late(t) == t + EraseSeconds * TicksPerSecond + 1

(* the deadline __erase computes after sending CHIP_ERASE *)
eraseDeadline(t) == t + EraseSeconds * TicksPerSecond

(* the loop test of __erase *)
erasePolling(t, d) == t < d

(* Mutation of the except clause of __erase: it swallows nothing.          *)
eraseAbsorbs_none(e) == FALSE

(* the except clause of __erase: which exceptions of __getSync it swallows *)
eraseAbsorbs(e) == e.type = "RuntimeError"

(* bytes received in the wire events w *)
RECURSIVE RxCount(_)
RxCount(w) ==
    IF w = << >> THEN 0
    ELSE (IF Head(w).d = "rx" THEN Len(Head(w).data) ELSE 0) + RxCount(Tail(w))

(* __erase: send CHIP_ERASE + EOC, set the deadline *)
EraseSend ==
    /\ pc = "erase"
    /\ IF ~port_open
       THEN /\ Raise(PortNotOpenError)
            /\ UNCHANGED << wire, deadline >>
       ELSE /\ wire' = Append(wire, Tx(<< CHIP_ERASE, EOC >>))
            /\ deadline' = eraseDeadline(now)
            /\ pc' = "erase_poll"
            /\ exc' = exc
    /\ UNCHANGED << runningPython3, caller, closes, fw, port_open, session, op, identified,
                    now, chunk >>

(* Mutation of the loop of __program: the last group is left out.          *)
afterProgram_dropsLast(k, groups, rev) ==
    IF k + 1 < Len(groups) THEN "program"
    ELSE IF rev = 2 THEN "verify_v2" ELSE "verify_v3"

(* where upload() goes once k groups are programmed *)
afterProgram(k, groups, rev) ==
    IF k < Len(groups) THEN "program"
    ELSE IF rev = 2 THEN "verify_v2" ELSE "verify_v3"

(* __erase: one turn of the polling loop *)
ErasePoll ==
    /\ pc = "erase_poll"
    /\ IF erasePolling(now, deadline)
       THEN \E r \in SyncReads :
              LET s == getSync(r[1], r[2])
              IN  /\ RxCount(wire) + RxCount(s.rx) <= MaxEraseRx
                  /\ wire' = wire \o s.rx
                  /\ now' = now + s.timeouts
                  /\ IF s.exc = NoError
                     THEN /\ pc' = afterProgram(0, split_len(fw.image, PROG_MULTI_MAX), bl_rev)
                          /\ exc' = exc
                     ELSE IF eraseAbsorbs(s.exc)
                     THEN pc' = pc /\ exc' = exc
                     ELSE Raise(s.exc)
       ELSE /\ Raise(RuntimeError("timed out waiting for erase"))
            /\ UNCHANGED << wire, now >>
    /\ UNCHANGED << runningPython3, caller, closes, fw, port_open, session, op, identified,
                    deadline, chunk >>

(* upload() is past __erase: its deadline and its reading of the clock are gone *)
EraseOver == now' = 0 /\ deadline' = 0

(* the frame __program_multi writes: command, length byte, data, EOC *)
progFrame(data) == << PROG_MULTI, Len(data) >> \o data \o << EOC >>

(* __program: one turn of its loop, __program_multi on the next group *)
ProgramMulti ==
    /\ pc = "program"
    /\ LET groups == split_len(fw.image, PROG_MULTI_MAX)
           data == groups[chunk + 1]
       IN  \E r \in SyncReads :
              LET s == getSync(r[1], r[2])
              IN  /\ wire' = wire \o << Tx(progFrame(data)) >> \o s.rx
                  /\ IF s.exc # NoError
                     THEN Raise(s.exc) /\ chunk' = chunk
                     ELSE /\ chunk' = IF chunk + 1 < Len(groups) THEN chunk + 1 ELSE 0
                          /\ pc' = afterProgram(chunk + 1, groups, bl_rev)
                          /\ exc' = exc
    /\ EraseOver
    /\ UNCHANGED << runningPython3, caller, closes, fw, port_open, session, op, identified >>

(* results of port.read(len(data)) after READ_MULTI: the data in flash,    *)
(* flash that differs in its first or in its last byte, one byte less than *)
(* asked for, or nothing                                                   *)
ReadBack(data) ==
    { data,
      [data EXCEPT ![1] = (@ + 1) % 256],
      [data EXCEPT ![Len(data)] = (@ + 1) % 256],
      SubSeq(data, 1, Len(data) - 1),
      << >> }

(* __verify_v2: send CHIP_VERIFY + EOC, __getSync *)
VerifyV2 ==
    /\ pc = "verify_v2"
    /\ \E r \in SyncReads :
          LET s == getSync(r[1], r[2])
          IN  /\ wire' = wire \o << Tx(<< CHIP_VERIFY, EOC >>) >> \o s.rx
              /\ IF s.exc # NoError THEN Raise(s.exc)
                 ELSE /\ pc' = IF split_len(fw.image, READ_MULTI_MAX) = << >>
                               THEN "reboot" ELSE "verify_multi"
                      /\ exc' = exc
    /\ EraseOver
    /\ UNCHANGED << runningPython3, caller, closes, fw, port_open, session, op, identified, chunk >>

(* __verify_multi on data, programmed being what port.read returned: the   *)
(* exception it ends with, NoError when it returns True, and for a False   *)
(* return the RuntimeError __verify_v2 raises.  On a mismatch the two      *)
(* diagnostics concatenate a str with binascii.hexlify's result, which is  *)
(* bytes under Python 3: TypeError.                                        *)
verify_multi(data, programmed, r1, r2, py3) ==
    LET p == recv(programmed)
        s == getSync(r1, r2)
    IN  IF p.exc # NoError
        THEN [exc |-> p.exc, rx |-> << >>]
        ELSE IF p.val # data
        THEN [exc |-> IF py3 THEN TypeError("can only concatenate str (not bytes) to str")
                      ELSE RuntimeError("Verification failed"),
              rx |-> RxEvents(programmed)]
        ELSE [exc |-> s.exc, rx |-> RxEvents(programmed) \o s.rx]

(* __verify_v2: one turn of its loop *)
VerifyMulti ==
    /\ pc = "verify_multi"
    /\ LET groups == split_len(fw.image, READ_MULTI_MAX)
           data == groups[chunk + 1]
       IN  \E programmed \in ReadBack(data), r \in SyncReads :
              LET v == verify_multi(data, programmed, r[1], r[2], runningPython3)
              IN  /\ wire' = wire \o << Tx(<< READ_MULTI, Len(data), EOC >>) >> \o v.rx
                  /\ IF v.exc # NoError
                     THEN Raise(v.exc) /\ chunk' = chunk
                     ELSE /\ chunk' = IF chunk + 1 < Len(groups) THEN chunk + 1 ELSE 0
                          /\ pc' = IF chunk + 1 < Len(groups) THEN "verify_multi" ELSE "reboot"
                          /\ exc' = exc
    /\ EraseOver
    /\ UNCHANGED << runningPython3, caller, closes, fw, port_open, session, op, identified >>

(* results of port.read(4) after GET_CRC: the CRC the code expects, a CRC  *)
(* that differs from it, three bytes only, or nothing                      *)
ReadCrc(expect) ==
    { expect, [expect EXCEPT ![1] = (@ + 1) % 256], SubSeq(expect, 1, 3), << >> }

(* __verify_v3 after expect_crc = fw.crc(self.fw_maxsize), c being what    *)
(* port.read(4) returned                                                   *)
verify_v3(expect_crc, c, r1, r2) ==
    LET report_crc == recv_int(c)
        s == getSync(r1, r2)
    IN  IF report_crc.exc # NoError
        THEN [exc |-> report_crc.exc, rx |-> RxEvents(c)]
        ELSE IF s.exc # NoError
        THEN [exc |-> s.exc, rx |-> RxEvents(c) \o s.rx]
        ELSE IF report_crc.val # expect_crc
        THEN [exc |-> RuntimeError("Program CRC failed"), rx |-> RxEvents(c) \o s.rx]
        ELSE [exc |-> NoError, rx |-> RxEvents(c) \o s.rx]

VerifyV3 ==
    /\ pc = "verify_v3"
    /\ \E expect_crc \in {expectCrc(fw.image, fw_maxsize)} :
       \E c \in ReadCrc(expect_crc), r \in SyncReads :
          LET v == verify_v3(expect_crc, c, r[1], r[2])
          IN  /\ wire' = wire \o << Tx(<< GET_CRC, EOC >>) >> \o v.rx
              /\ IF v.exc # NoError THEN Raise(v.exc)
                 ELSE pc' = "reboot" /\ exc' = exc
    /\ EraseOver
    /\ UNCHANGED << runningPython3, caller, closes, fw, port_open, session, op, identified, chunk >>

(* __reboot waits for the reply of a revision 3+ bootloader only *)
rebootSyncs(rev) == rev >= 3

(* __reboot, then self.port.close(): upload returns *)
Reboot ==
    /\ pc = "reboot"
    /\ \E r \in SyncReads :
          LET s == IF rebootSyncs(bl_rev) THEN getSync(r[1], r[2])
                   ELSE [exc |-> NoError, rx |-> << >>]
          IN  /\ wire' = wire \o << Tx(<< REBOOT, EOC >>) >> \o s.rx
              /\ IF s.exc # NoError
                 THEN Raise(s.exc) /\ UNCHANGED << port_open, closes >>
                 ELSE port_open' = FALSE /\ closes' = closes + 1 /\ Return
    /\ EraseOver
    /\ UNCHANGED << runningPython3, caller, fw, session, op, identified, chunk >>

(***************************************************************************)
(* The script: load the firmware file, then scan the ports                 *)
(***************************************************************************)
NSH_INIT ==
    << 13, 13, 13 >>
NSH_REBOOT_BL ==
    << 114, 101, 98, 111, 111, 116, 32, 45, 98, 10 >>
NSH_REBOOT ==
    << 114, 101, 98, 111, 111, 116, 10 >>
MAVLINK_REBOOT_ID1 ==
    << 254, 33, 114, 255, 0, 76, 0, 0, 128, 63, 0, 0, 0, 0, 0, 0, 0,
       0, 0, 0, 0, 0, 0, 0, 0, 0, 0, 0, 0, 0, 0, 0, 0, 0, 246, 0, 1,
       0, 0, 72, 240 >>
MAVLINK_REBOOT_ID0 ==
    << 254, 33, 69, 255, 0, 76, 0, 0, 128, 63, 0, 0, 0, 0, 0, 0, 0, 0,
       0, 0, 0, 0, 0, 0, 0, 0, 0, 0, 0, 0, 0, 0, 0, 0, 246, 0, 0, 0,
       0, 215, 172 >>

(* uploader.send_reboot: the frames it writes, in order *)
send_reboot ==
    << Tx(NSH_INIT), Tx(NSH_REBOOT_BL), Tx(NSH_INIT), Tx(NSH_REBOOT),
       Tx(MAVLINK_REBOOT_ID1), Tx(MAVLINK_REBOOT_ID0) >>

(* fw = firmware(args.firmware): an exception ends the script *)
MainLoad ==
    /\ caller = "main"
    /\ pc = "load"
    /\ \E d \in Descriptors :
          LET f == firmware(d.desc, d.payload, runningPython3)
          IN  /\ op' = "load"
              /\ IF f.exc # NoError
                 THEN Raise(f.exc) /\ fw' = fw
                 ELSE /\ fw' = [desc |-> f.desc, image |-> f.image]
                      /\ pc' = "scan"
                      /\ exc' = NoError
    /\ UNCHANGED << runningPython3, caller, closes, port_open, session, identified,
                    now, deadline, chunk, wire >>

(* up = uploader(port, args.baud) on the next port of the list: a new      *)
(* session on a newly opened port                                          *)
MainOpen ==
    /\ caller = "main"
    /\ pc = "scan"
    /\ pc' = "opened"
    /\ op' = "open"
    /\ exc' = NoError
    /\ port_open' = TRUE
    /\ closes' = 0
    /\ bl_rev' = Unset
    /\ board_type' = Unset
    /\ board_rev' = Unset
    /\ fw_maxsize' = Unset
    /\ identified' = FALSE
    /\ wire' = << >>
    /\ UNCHANGED << runningPython3, caller, fw, now, deadline, chunk >>

(* up.identify() in the script's try *)
MainIdentify ==
    /\ caller = "main"
    /\ pc = "opened"
    /\ pc' = "sync"
    /\ op' = "identify"
    /\ exc' = NoError
    /\ UNCHANGED << runningPython3, caller, closes, fw, port_open, session, identified,
                    now, deadline, chunk, wire >>

(* the bare except around identify(): send_reboot, sleep, continue with    *)
(* the next port                                                           *)
MainIdentifyFailed ==
    /\ caller = "main"
    /\ pc = "idle"
    /\ op = "identify"
    /\ exc # NoError
    /\ wire' = wire \o send_reboot
    /\ op' = "send_reboot"
    /\ pc' = "scan"
    /\ exc' = NoError
    /\ UNCHANGED << runningPython3, caller, closes, fw, port_open, session, identified,
                    now, deadline, chunk >>

(* up.upload(fw) in the script's second try *)
MainUpload ==
    /\ caller = "main"
    /\ op = "identify"
    /\ exc = NoError
    /\ Begin("upload")
    /\ IF uploadCheck(board_type, fw_maxsize, fw) # NoError
       THEN Raise(uploadCheck(board_type, fw_maxsize, fw))
       ELSE pc' = "erase" /\ exc' = NoError
    /\ UNCHANGED << runningPython3, caller, closes, fw, port_open, session, identified >>

(* except RuntimeError: print; finally: up.close(); then sys.exit(0), or   *)
(* the exception that is no RuntimeError ends the script                   *)
MainFinally ==
    /\ caller = "main"
    /\ pc = "idle"
    /\ op = "upload"
    /\ op' = "exit"
    /\ exc' = IF exc.type = "RuntimeError" THEN NoError ELSE exc
    /\ closes' = closes + 1
    /\ port_open' = FALSE
    /\ UNCHANGED << runningPython3, caller, fw, session, identified, pc,
                    now, deadline, chunk, wire >>

(***************************************************************************)
(* The session driven by a caller of the library, who calls identify() and *)
(* upload(fw) in any order, any number of times, or by the script          *)
(***************************************************************************)
Next ==
    \/ CallIdentify
    \/ IdentifySync
    \/ IdentifyBlRev
    \/ IdentifyBoardId
    \/ IdentifyBoardRev
    \/ IdentifyFlashSize
    \/ CallUpload
    \/ EraseSend
    \/ ErasePoll
    \/ ProgramMulti
    \/ VerifyV2
    \/ VerifyMulti
    \/ VerifyV3
    \/ Reboot
    \/ MainLoad
    \/ MainOpen
    \/ MainIdentify
    \/ MainIdentifyFailed
    \/ MainUpload
    \/ MainFinally

Spec == Init /\ [][Next]_vars

(***************************************************************************)
(* Reading the record of the link                                          *)
(***************************************************************************)
RxInSync == Rx(<< INSYNC >>)
RxOk == Rx(<< OK >>)

(* the places of the frames written, in order *)
TxAt(w) == {i \in 1..Len(w) : w[i].d = "tx"}

(* the command bytes written, in order *)
TxCmds(w) ==
    LET t == SelectSeq(w, LAMBDA e : e.d = "tx")
    IN  [i \in 1..Len(t) |-> t[i].data[1]]

(* the bytes received, in order *)
RECURSIVE RxBytesOf(_)
RxBytesOf(w) ==
    IF w = << >> THEN << >>
    ELSE (IF Head(w).d = "rx" THEN Head(w).data ELSE << >>) \o RxBytesOf(Tail(w))

(* what was received after the frame at place i, up to the next frame *)
ReplyTo(w, i) ==
    LET later == {j \in TxAt(w) : j > i}
        stop == IF later = {} THEN Len(w) + 1 ELSE CHOOSE j \in later : \A k \in later : j <= k
    IN  SubSeq(w, i + 1, stop - 1)

EndsInSyncOk(reply) ==
    /\ Len(reply) >= 2
    /\ reply[Len(reply) - 1] = RxInSync
    /\ reply[Len(reply)] = RxOk

(* n times the command c *)
Times(n, c) == [i \in 1..n |-> c]

(* the frame at place i is the k-th of its command *)
NthOfItsKind(w, i) == Cardinality({j \in TxAt(w) : j <= i /\ w[j].data[1] = w[i].data[1]})

(* the device's reply to the frame at place i of an upload of image f on a *)
(* session of revision rev and flash size maxsize is the reply of a device *)
(* that did what the frame asked                                           *)
GoodReply(w, i, f, rev, maxsize) ==
    LET c == w[i].data[1]
        reply == ReplyTo(w, i)
    IN  CASE c = CHIP_ERASE -> EndsInSyncOk(reply)
          [] c = READ_MULTI ->
                reply = << Rx(split_len(f.image, READ_MULTI_MAX)[NthOfItsKind(w, i)]),
                           RxInSync, RxOk >>
          [] c = GET_CRC -> reply = << Rx(expectCrc(f.image, maxsize)), RxInSync, RxOk >>
          [] c = REBOOT -> reply = IF rev >= 3 THEN << RxInSync, RxOk >> ELSE << >>
          [] OTHER -> reply = << RxInSync, RxOk >>

(* upload() has returned normally *)
UploadReturned == op = "upload" /\ pc = "idle" /\ exc = NoError
(* upload() has ended with an exception *)
UploadFailed == op = "upload" /\ pc = "idle" /\ exc # NoError

(* the error kinds of the specification, as the code raises them *)
TimeoutError == RuntimeError("timeout waiting for data")
ProtocolErrors ==
    { RuntimeError("unexpected %s instead of INSYNC"),
      RuntimeError("unexpected response 0x%x instead of OK") }
UnsupportedOperationError == RuntimeError("bootloader reports INVALID OPERATION")
OperationFailedError == RuntimeError("bootloader reports OPERATION FAILED")
EraseTimeoutError == RuntimeError("timed out waiting for erase")
WrongBoardError == RuntimeError("Firmware not suitable for this board")
TooLargeError == RuntimeError("Firmware image is too large for this board")
RevisionError == RuntimeError("Bootloader protocol mismatch")

(***************************************************************************)
(* C1: when upload() returns without error, the commands written are one   *)
(* CHIP_ERASE, then one PROG_MULTI per group of the image, then the        *)
(* verification commands (CHIP_VERIFY and one READ_MULTI per group, or one *)
(* GET_CRC), then one REBOOT, and every one of them was sent only after    *)
(* the one before it had been answered as a device that obeyed answers:    *)
(* erase and every PROG_MULTI acknowledged, verification data matching.    *)
(***************************************************************************)
C1_UploadOrder ==
    UploadReturned =>
        LET n == Len(split_len(fw.image, PROG_MULTI_MAX))
            cmds == TxCmds(wire)
        IN  /\ \/ cmds = << CHIP_ERASE >> \o Times(n, PROG_MULTI)
                              \o << CHIP_VERIFY >> \o Times(n, READ_MULTI) \o << REBOOT >>
               \/ cmds = << CHIP_ERASE >> \o Times(n, PROG_MULTI)
                              \o << GET_CRC >> \o << REBOOT >>
            /\ wire[1].d = "tx"
            /\ \A i \in TxAt(wire) : GoodReply(wire, i, fw, bl_rev, fw_maxsize)

(* an upload of three groups, verified by read-back, has returned *)
C1_Witness ==
    /\ UploadReturned
    /\ Len(split_len(fw.image, PROG_MULTI_MAX)) = 3
    /\ TxCmds(wire)[5] = CHIP_VERIFY

(***************************************************************************)
(* C2: a programming or verification command (PROG_MULTI, CHIP_VERIFY,     *)
(* READ_MULTI, GET_CRC) is on the link only if some identify() call on the *)
(* session has returned normally before.                                   *)
(***************************************************************************)
C2_IdentifyFirst ==
    (\E i \in TxAt(wire) : wire[i].data[1] \in {PROG_MULTI, CHIP_VERIFY, READ_MULTI, GET_CRC})
        => identified

(* upload() was called after an identify() that failed part-way, with the  *)
(* board type already stored, and was stopped before it wrote anything     *)
C2_Witness ==
    /\ ~identified
    /\ UploadFailed
    /\ board_type = property(fw, "board_id")
    /\ fw_maxsize = Unset
    /\ wire = << >>

(***************************************************************************)
(* C3: upload() of an image made for another board than the session's, or  *)
(* larger (by its image_size) than the session's flash, ends at once with  *)
(* the compatibility error of that check, and has written nothing to the   *)
(* link.                                                                   *)
(***************************************************************************)
C3_CompatibilityFirst ==
    /\ (op = "upload" /\ board_type # Unset /\ board_type # property(fw, "board_id"))
          => (pc = "idle" /\ exc = WrongBoardError /\ wire = << >>)
    /\ (op = "upload" /\ board_type = property(fw, "board_id") /\ fw_maxsize # Unset
            /\ fw_maxsize < property(fw, "image_size"))
          => (pc = "idle" /\ exc = TooLargeError /\ wire = << >>)

(* an image for the right board, too large for its flash, was refused *)
C3_Witness ==
    /\ UploadFailed
    /\ board_type = property(fw, "board_id")
    /\ fw_maxsize < property(fw, "image_size")
    /\ exc = TooLargeError

(***************************************************************************)
(* C4: inside upload(), nothing is written after a phase has failed: every *)
(* frame on the link except the last one was answered as a device that     *)
(* obeyed answers, an upload still running has no failed phase behind it   *)
(* other than attempts of the erase poll, and an upload that ended after a *)
(* reply that was not a good one ended with an exception.                  *)
(***************************************************************************)
C4_FirstFailureEnds ==
    op = "upload" =>
        \A i \in TxAt(wire) :
            \/ GoodReply(wire, i, fw, bl_rev, fw_maxsize)
            \/ /\ \A j \in TxAt(wire) : j <= i
               /\ \/ pc = "idle" /\ exc # NoError
                  \/ pc = "erase_poll" /\ wire[i].data[1] = CHIP_ERASE

(* the second PROG_MULTI of an upload was answered INSYNC, FAILED: the     *)
(* upload ended there with that error                                      *)
C4_Witness ==
    /\ UploadFailed
    /\ TxCmds(wire) = << CHIP_ERASE, PROG_MULTI, PROG_MULTI >>
    /\ exc = OperationFailedError
    /\ Len(split_len(fw.image, PROG_MULTI_MAX)) = 3

(***************************************************************************)
(* C5: __sync writes GET_SYNC + EOC and then reads at most two bytes,      *)
(* which decide its outcome: INSYNC, OK succeeds; INSYNC, INVALID is       *)
(* the unsupported-operation error; INSYNC, FAILED the operation-failed    *)
(* error; INSYNC and any other byte, or a first byte other than INSYNC (no *)
(* second byte is read then), a protocol error; a missing byte a timeout.  *)
(***************************************************************************)
C5_SyncOutcome ==
    [][ (pc = "sync" /\ port_open) =>
            LET b == RxBytesOf(wire')
            IN  /\ wire'[1] = Tx(<< GET_SYNC, EOC >>)
                /\ TxAt(wire') = {1}
                /\ Len(b) <= 2
                /\ (b = << INSYNC, OK >>) => (pc' = "bl_rev" /\ exc' = NoError)
                /\ (b = << INSYNC, INVALID >>) => (pc' = "idle" /\ exc' = UnsupportedOperationError)
                /\ (b = << INSYNC, FAILED >>) => (pc' = "idle" /\ exc' = OperationFailedError)
                /\ (Len(b) = 2 /\ b[2] \notin {OK, INVALID, FAILED})
                      => (pc' = "idle" /\ exc' \in ProtocolErrors)
                /\ (Len(b) >= 1 /\ b[1] # INSYNC)
                      => (Len(b) = 1 /\ pc' = "idle" /\ exc' \in ProtocolErrors)
                /\ (b = << >> \/ b = << INSYNC >>) => (pc' = "idle" /\ exc' = TimeoutError)
      ]_vars

(* a sync answered INSYNC, INVALID has failed as an unsupported operation *)
C5_Witness ==
    /\ op = "identify"
    /\ pc = "idle"
    /\ wire = << Tx(<< GET_SYNC, EOC >>), RxInSync, Rx(<< INVALID >>) >>
    /\ exc = UnsupportedOperationError

(***************************************************************************)
(* C6: identify() against a device that answers every query as it should   *)
(* ends with the revision error when the device reports a bootloader       *)
(* revision outside BL_REV_MIN..BL_REV_MAX, and otherwise returns after    *)
(* asking for bootloader revision, board type, board revision and flash    *)
(* size in this order, with the four values stored on the session.         *)
(***************************************************************************)
GoodSync == << Tx(<< GET_SYNC, EOC >>), RxInSync, RxOk >>
GoodInfo(param, v) == << Tx(<< GET_DEVICE, param, EOC >>), Rx(packLE(v)), RxInSync, RxOk >>

C6_RevisionGating ==
    (op = "identify" /\ pc = "idle") =>
        /\ \A rev \in DeviceValues(INFO_BL_REV) \ (BL_REV_MIN..BL_REV_MAX) :
              (wire = GoodSync \o GoodInfo(INFO_BL_REV, rev)) => exc = RevisionError
        /\ \A rev \in BL_REV_MIN..BL_REV_MAX, type \in DeviceValues(INFO_BOARD_ID),
              brev \in DeviceValues(INFO_BOARD_REV), size \in DeviceValues(INFO_FLASH_SIZE) :
              (wire = GoodSync \o GoodInfo(INFO_BL_REV, rev) \o GoodInfo(INFO_BOARD_ID, type)
                          \o GoodInfo(INFO_BOARD_REV, brev) \o GoodInfo(INFO_FLASH_SIZE, size))
                  => /\ exc = NoError
                     /\ << bl_rev, board_type, board_rev, fw_maxsize >> = << rev, type, brev, size >>

(***************************************************************************)
(* C7: whenever the session holds a bootloader revision, it is one of      *)
(* BL_REV_MIN..BL_REV_MAX.                                                 *)
(***************************************************************************)
C7_RevisionRange == bl_rev # Unset => bl_rev \in BL_REV_MIN..BL_REV_MAX

(***************************************************************************)
(* C8: while __erase polls and the link has delivered nothing yet, every   *)
(* attempt made before 20 seconds have passed that runs into the read      *)
(* timeout is absorbed (the poll goes on, nothing is written again), and   *)
(* an attempt can then still be made; the attempt that reads INSYNC, OK    *)
(* ends __erase with success, CHIP_ERASE having been written exactly once. *)
(***************************************************************************)
EraseTicks == EraseSeconds * TicksPerSecond

(* the poll reads INSYNC, OK in one attempt and __erase returns *)
EraseAcked ==
    /\ ErasePoll
    /\ wire' = wire \o << RxInSync, RxOk >>
    /\ pc' \notin {"erase_poll", "idle"}
    /\ exc' = NoError

C8_EraseRetry ==
    /\ [](  (pc = "erase_poll" /\ RxCount(wire) = 0 /\ now < EraseTicks)
            => (ENABLED EraseAcked /\ wire = << Tx(<< CHIP_ERASE, EOC >>) >>) )
    /\ [][  (pc = "erase_poll" /\ now < EraseTicks /\ now' = now + 1)
            => (pc' = "erase_poll" /\ TxCmds(wire') = << CHIP_ERASE >>) ]_vars
    /\ [][  (pc = "erase_poll" /\ wire' = wire \o << RxInSync, RxOk >>)
            => (pc' \notin {"erase_poll", "idle"} /\ exc' = NoError
                   /\ TxCmds(wire') = << CHIP_ERASE >>) ]_vars

(* __erase has returned after 39 attempts that timed out and one that read *)
(* INSYNC, OK                                                              *)
C8_Witness ==
    /\ op = "upload"
    /\ pc \notin {"erase", "erase_poll", "idle"}
    /\ now = EraseTicks - 1
    /\ wire = << Tx(<< CHIP_ERASE, EOC >>), RxInSync, RxOk >>

(***************************************************************************)
(* C9: __erase terminates; once 20 seconds have passed since it computed   *)
(* its deadline (right after writing CHIP_ERASE) it makes no further       *)
(* attempt and ends with the erase timeout error, and when every attempt   *)
(* timed out it ends with that error exactly when the 20 seconds are over. *)
(***************************************************************************)
C9_EraseTerminates ==
    /\ (pc = "erase_poll") ~> (pc # "erase_poll")
    /\ [](pc = "erase_poll" => (deadline = EraseTicks /\ now <= EraseTicks))
    /\ [][  (pc = "erase_poll" /\ now >= EraseTicks)
            => (pc' = "idle" /\ exc' = EraseTimeoutError /\ wire' = wire /\ now' = now) ]_vars
    /\ [][  (pc = "erase_poll" /\ RxCount(wire') = 0 /\ pc' = "idle")
            => (now >= EraseTicks /\ exc' = EraseTimeoutError) ]_vars

(* __erase has ended with the erase timeout error after attempts that all  *)
(* timed out                                                               *)
C9_Witness ==
    /\ UploadFailed
    /\ exc = EraseTimeoutError
    /\ wire = << Tx(<< CHIP_ERASE, EOC >>) >>
    /\ now = EraseTicks

(***************************************************************************)
(* C10: an attempt of the erase poll that fails for another reason than a  *)
(* read timeout (the device answered INSYNC, FAILED, or INSYNC, INVALID,   *)
(* or sent an unexpected byte) ends __erase with that error.               *)
(***************************************************************************)
C10_EraseSurfacesErrors ==
    [][ (pc = "erase_poll" /\ now < deadline) =>
            LET b == RxBytesOf(SubSeq(wire', Len(wire) + 1, Len(wire')))
            IN  /\ (now' = now /\ b = << INSYNC, FAILED >>)
                      => (pc' = "idle" /\ exc' = OperationFailedError)
                /\ (now' = now /\ b = << INSYNC, INVALID >>)
                      => (pc' = "idle" /\ exc' = UnsupportedOperationError)
                /\ (now' = now /\ b # << >> /\ b # << INSYNC, OK >>
                        /\ b # << INSYNC, FAILED >> /\ b # << INSYNC, INVALID >>)
                      => (pc' = "idle" /\ exc' \in ProtocolErrors)
      ]_vars

(***************************************************************************)
(* The session with the polling loop of __erase kept running: the program  *)
(* is sequential, so a loop that can take its next turn takes it.          *)
(***************************************************************************)
FairSpec == Spec /\ WF_vars(ErasePoll)

(***************************************************************************)
(* C11: when the device answers CHIP_ERASE with exactly the two bytes      *)
(* INSYNC, OK, __erase does not fail, wherever the read timeouts fall,     *)
(* also when one falls between the two bytes.                              *)
(***************************************************************************)
C11_EraseKeepsFraming ==
    (op = "upload" /\ TxCmds(wire) = << CHIP_ERASE >> /\ RxBytesOf(wire) = << INSYNC, OK >>)
        => ~UploadFailed

(***************************************************************************)
(* C12: a read that returns fewer bytes than were asked for ends the call  *)
(* with the timeout error: the four-byte reads after GET_DEVICE and        *)
(* GET_CRC that return one to three bytes, and the read-back after         *)
(* READ_MULTI that returns less than the group.                            *)
(***************************************************************************)
C12_ShortReadTimesOut ==
    \A i \in TxAt(wire) :
        (i < Len(wire) /\ wire[i + 1].d = "rx") =>
            LET c == wire[i].data[1]
                got == Len(wire[i + 1].data)
            IN  /\ (c \in {GET_DEVICE, GET_CRC} /\ got < 4)
                      => (pc = "idle" /\ exc = TimeoutError)
                /\ (c = READ_MULTI /\ got < wire[i].data[2])
                      => (pc = "idle" /\ exc = TimeoutError)

(***************************************************************************)
(* C13: the PROG_MULTI frames of an upload carry the image in order: each  *)
(* frame is PROG_MULTI, a length byte equal to the size of its payload,    *)
(* the payload, EOC; no payload is empty or longer than PROG_MULTI_MAX,    *)
(* every payload but the last is PROG_MULTI_MAX bytes, the payloads        *)
(* written so far are the beginning of the image, and once every group is  *)
(* acknowledged there are ceil(L / PROG_MULTI_MAX) frames whose payloads   *)
(* make up the image, L being its length.                                  *)
(***************************************************************************)
ProgFrames(w) ==
    LET t == SelectSeq(w, LAMBDA e : e.d = "tx" /\ e.data[1] = PROG_MULTI)
    IN  [k \in 1..Len(t) |-> t[k].data]

FramePayload(frame) == SubSeq(frame, 3, Len(frame) - 1)

RECURSIVE Concat(_)
Concat(payloads) ==
    IF payloads = << >> THEN << >> ELSE Head(payloads) \o Concat(Tail(payloads))

(* upload() is past __program *)
ProgramDone ==
    /\ op = "upload"
    /\ \/ pc \in {"verify_v2", "verify_multi", "verify_v3", "reboot"}
       \/ \E i \in TxAt(wire) : wire[i].data[1] \in {CHIP_VERIFY, GET_CRC, REBOOT}

C13_Chunking ==
    op = "upload" =>
        LET frames == ProgFrames(wire)
            payloads == [k \in 1..Len(frames) |-> FramePayload(frames[k])]
            sent == Concat(payloads)
            L == Len(fw.image)
        IN  /\ \A k \in 1..Len(frames) :
                  /\ Len(frames[k]) >= 4
                  /\ frames[k][2] = Len(payloads[k])
                  /\ frames[k][Len(frames[k])] = EOC
                  /\ Len(payloads[k]) \in 1..PROG_MULTI_MAX
                  /\ (k < Len(frames)) => Len(payloads[k]) = PROG_MULTI_MAX
            /\ Len(sent) <= L
            /\ sent = SubSeq(fw.image, 1, Len(sent))
            /\ ProgramDone =>
                  /\ Len(frames) = (L + PROG_MULTI_MAX - 1) \div PROG_MULTI_MAX
                  /\ sent = fw.image

(* an image of two full groups and a last group of 4 bytes is programmed   *)
C13_Witness ==
    /\ ProgramDone
    /\ Len(fw.image) = 2 * PROG_MULTI_MAX + 4
    /\ Len(ProgFrames(wire)) = 3
    /\ ProgFrames(wire)[3][2] = 4

(***************************************************************************)
(* C14: in an upload, CHIP_VERIFY and READ_MULTI are written only by a     *)
(* session whose bootloader revision is 2, GET_CRC only by a session whose *)
(* revision is 3 or more, and never commands of both kinds.                *)
(***************************************************************************)
C14_VerifyByRevision ==
    op = "upload" =>
        LET cmds == {wire[i].data[1] : i \in TxAt(wire)}
        IN  /\ (cmds \cap {CHIP_VERIFY, READ_MULTI} # {}) => bl_rev = 2
            /\ (GET_CRC \in cmds) => bl_rev >= 3
            /\ ~(cmds \cap {CHIP_VERIFY, READ_MULTI} # {} /\ GET_CRC \in cmds)

(***************************************************************************)
(* C15: verification ends with the verification error exactly when the     *)
(* device's data differs from the image: a read-back after READ_MULTI that *)
(* is not the group asked for ends the upload there with that error, and   *)
(* so does a CRC, acknowledged with INSYNC, OK, that is not the CRC of the *)
(* image; an upload that ended with the verification error has such a      *)
(* reply as the last thing on the link.                                    *)
(***************************************************************************)
VerificationErrors ==
    { RuntimeError("Verification failed"), RuntimeError("Program CRC failed") }

(* the reply to the verification frame at place i carries data that is not *)
(* the image's                                                             *)
DataDiffers(w, i, f, maxsize) ==
    LET c == w[i].data[1]
        reply == ReplyTo(w, i)
    IN  \/ /\ c = READ_MULTI
           /\ reply # << >>
           /\ reply[1] # Rx(split_len(f.image, READ_MULTI_MAX)[NthOfItsKind(w, i)])
        \/ /\ c = GET_CRC
           /\ Len(reply) = 3
           /\ Len(reply[1].data) = 4
           /\ reply[2] = RxInSync /\ reply[3] = RxOk
           /\ reply[1] # Rx(expectCrc(f.image, maxsize))

C15_VerificationMismatch ==
    op = "upload" =>
        /\ \A i \in TxAt(wire) :
              DataDiffers(wire, i, fw, fw_maxsize)
                  => /\ pc = "idle"
                     /\ exc \in VerificationErrors
                     /\ \A j \in TxAt(wire) : j <= i
        /\ (pc = "idle" /\ exc \in VerificationErrors)
              => \E i \in TxAt(wire) : DataDiffers(wire, i, fw, fw_maxsize)

(***************************************************************************)
(* C16: when the script leaves a port it opened (it goes on to the next    *)
(* port after identify() failed, or it ends after upload() returned or     *)
(* failed), close() has been called on that port exactly once.             *)
(***************************************************************************)
LeavesPort == caller = "main" /\ op \in {"send_reboot", "exit"}

C16_ClosedOnce == LeavesPort => closes = 1

(***************************************************************************)
(* C17: the reboot byte sequences of send_reboot are written only to a     *)
(* link on which the sync handshake (GET_SYNC answered INSYNC, OK) did not *)
(* complete.                                                               *)
(***************************************************************************)
RebootInjected == \E i \in TxAt(wire) : wire[i] = Tx(NSH_REBOOT_BL)

C17_RebootOnlyUnsynced ==
    RebootInjected => ~(Len(wire) >= 3 /\ SubSeq(wire, 1, 3) = GoodSync)

(***************************************************************************)
(* C18: firmware(path) succeeds for a payload of every length; the image   *)
(* is the payload followed by 0 to 3 bytes 0xFF, its length a multiple of  *)
(* 4.                                                                      *)
(***************************************************************************)
IsPadded(image, payload) ==
    /\ Len(image) % 4 = 0
    /\ Len(image) - Len(payload) \in 0..3
    /\ SubSeq(image, 1, Len(payload)) = payload
    /\ \A k \in (Len(payload) + 1)..Len(image) : image[k] = 255

C18_FirmwarePadded ==
    (caller = "main" /\ op = "load") =>
        /\ exc = NoError
        /\ \E d \in Descriptors : d.desc = fw.desc /\ IsPadded(fw.image, d.payload)

(***************************************************************************)
(* C19: fw.crc(padlen) is the CRC of the image followed by the smallest    *)
(* number of 4-byte 0xFF groups that brings the byte count to padlen or    *)
(* more: none when padlen <= len(image), ceil((padlen - len(image)) / 4)   *)
(* otherwise.  Seen where the code uses it: the CRC that __verify_v3       *)
(* accepts for the session's flash size.                                   *)
(***************************************************************************)
PadGroups(len, padlen) == IF padlen <= len THEN 0 ELSE (padlen - len + 3) \div 4

(* __verify_v3 has returned: the CRC at place i + 1 was accepted *)
CrcAccepted(i) ==
    /\ op = "upload"
    /\ wire[i].data[1] = GET_CRC
    /\ \/ pc = "reboot"
       \/ \E j \in TxAt(wire) : wire[j].data[1] = REBOOT

C19_CrcPadding ==
    \A i \in TxAt(wire) :
        CrcAccepted(i) =>
            wire[i + 1] = Rx(crcFold(PadGroups(Len(fw.image), fw_maxsize),
                                     crc32(fw.image, << 0, 0, 0, 0 >>)))

(***************************************************************************)
(* C20: the payload bytes an upload writes in PROG_MULTI frames never      *)
(* amount to more than the session's flash size.                           *)
(***************************************************************************)
ProgrammedBytes(w) ==
    LET frames == ProgFrames(w)
    IN  Len(Concat([k \in 1..Len(frames) |-> FramePayload(frames[k])]))

C20_WithinFlash ==
    (op = "upload" /\ fw_maxsize # Unset) => ProgrammedBytes(wire) <= fw_maxsize

====
